---- MODULE Spec2Model ----
(***************************************************************************)
(* Pruning-aware fine-tuning (run_classifier_nni.py): the weight pruning   *)
(* functions do_sparse / do_sparse_chn / do_sparse_mh, the rate balancer   *)
(* balance, and the training loop prune_function.eval_after_train that     *)
(* applies them after every training step.                                 *)
(*                                                                         *)
(* Numbers.  The source computes with floats; the model computes with      *)
(* exact rationals <<n, d>> (d > 0, lowest terms), so rounding error is    *)
(* outside the model.  Matrices are sequences of rows of integers.         *)
(*                                                                         *)
(* Scale.  The source prunes 12 layers of 768x768, 3072x768 and 768x3072   *)
(* matrices with 12 heads of 64 rows.  The model keeps the same layout at  *)
(* a reduced size: NumHeads heads of HeadSize rows, HiddenCols columns,    *)
(* layer_num layers.                                                       *)
(***************************************************************************)
EXTENDS Integers, Sequences, FiniteSets, TLC

(***************************************************************************)
(* Exact rationals                                                         *)
(***************************************************************************)
Abs(x) == IF x < 0 THEN -x ELSE x

RECURSIVE GCD(_, _)
GCD(a, b) == IF b = 0 THEN a ELSE GCD(b, a % b)

Rat(n, d) ==
    LET s == IF d < 0 THEN -1 ELSE 1
        g == GCD(Abs(n), Abs(d))
    IN  <<(s * n) \div g, (s * d) \div g>>

RInt(n) == <<n, 1>>
RAdd(a, b) ==
    LET g == GCD(a[2], b[2])
    IN  Rat(a[1] * (b[2] \div g) + b[1] * (a[2] \div g), (a[2] \div g) * b[2])
RNeg(a) == <<-a[1], a[2]>>
RSub(a, b) == RAdd(a, RNeg(b))
RMul(a, b) ==
    LET x == Rat(a[1], b[2])
        y == Rat(b[1], a[2])
    IN  <<x[1] * y[1], x[2] * y[2]>>
RDiv(a, b) == RMul(a, Rat(b[2], b[1]))
RIsZero(a) == a[1] = 0
RLess(a, b) == RSub(a, b)[1] < 0
RLeq(a, b) == RSub(a, b)[1] <= 0
\* Python's int(x): truncation toward zero.
RTrunc(a) == IF a[1] >= 0 THEN a[1] \div a[2] ELSE -((-a[1]) \div a[2])
\* floor(x)
RFloor(a) == a[1] \div a[2]

(***************************************************************************)
(* Tensors: a matrix is a sequence of d1 rows, each a sequence of d2       *)
(* integers.                                                               *)
(***************************************************************************)
\* The 12 heads of do_sparse_mh's reshape(12, 64*768), at model scale.
NumHeads == 3
\* The 64 rows of one head (768 / 12), at model scale.
HeadSize == 2
\* The 768 columns of a weight matrix, at model scale.
HiddenCols == 1

NumRows(w) == Len(w)
NumCols(w) == Len(w[1])
Numel(w) == NumRows(w) * NumCols(w)

\* w.reshape(r, c) of a contiguous (row-major) tensor.
reshape(w, r, c) ==
    LET d2 == NumCols(w)
        at(p) == w[((p - 1) \div d2) + 1][((p - 1) % d2) + 1]
    IN  [i \in 1..r |-> [j \in 1..c |-> at((i - 1) * c + j)]]

\* w.abs()
abs(w) == [i \in 1..NumRows(w) |-> [j \in 1..NumCols(w) |-> Abs(w[i][j])]]

\* Column j of x as a vector over the rows.
Column(x, j) == [i \in 1..NumRows(x) |-> x[i][j]]

RECURSIVE SumSeq(_)
SumSeq(v) == IF v = <<>> THEN 0 ELSE v[1] + SumSeq(Tail(v))

(***************************************************************************)
(* torch.topk(x, k, largest=False, dim=0): for every column of x the       *)
(* indices of its k smallest entries.  Which of several equal entries is   *)
(* taken is not specified by torch, so the model allows every choice; two  *)
(* columns with the same content are one computation and get the same      *)
(* indices.  topk raises unless 0 <= k <= d1.                              *)
(***************************************************************************)
topk_in_range(k, d1) == 0 <= k /\ k <= d1

\* The index sets S of size k with every entry in S <= every entry outside.
BottomK(vec, k) ==
    IF k = 0 THEN {{}}
    ELSE LET D == DOMAIN vec
             below(v) == {i \in D : vec[i] < v}
             upto(v) == {i \in D : vec[i] <= v}
             kth == CHOOSE v \in {vec[i] : i \in D} :
                       Cardinality(below(v)) < k /\ k <= Cardinality(upto(v))
             must == below(kth)
             ties == upto(kth) \ must
         IN  {must \cup T : T \in {U \in SUBSET ties :
                                     Cardinality(U) = k - Cardinality(must)}}

RECURSIVE TieBreaks(_, _)
TieBreaks(cols, k) ==
    IF cols = {} THEN {<<>>}
    ELSE LET c == CHOOSE x \in cols : TRUE
         IN  {(c :> s) @@ f : s \in BottomK(c, k), f \in TieBreaks(cols \ {c}, k)}

\* Mutant of topk: largest=True, the k largest entries of every column.
topk_largest(x, k) ==
    LET d2 == NumCols(x)
        neg(j) == [i \in 1..NumRows(x) |-> -x[i][j]]
    IN  {[j \in 1..d2 |-> f[neg(j)]] : f \in TieBreaks({neg(j) : j \in 1..d2}, k)}

\* The possible index tensors: indices[j] is the set of rows taken in column j.
topk(x, k) ==
    LET d2 == NumCols(x)
    IN  {[j \in 1..d2 |-> f[Column(x, j)]] :
            f \in TieBreaks({Column(x, j) : j \in 1..d2}, k)}

\* w.detach().scatter_(0, indices, zeros(k, d2)): in column j the rows
\* indices[j] are overwritten with 0, in place.
scatter_(w, indices) ==
    [i \in 1..NumRows(w) |->
        [j \in 1..NumCols(w) |-> IF i \in indices[j] THEN 0 ELSE w[i][j]]]

\* k = int(ratio * float(d1))
int_k(ratio, d1) == RTrunc(RMul(ratio, RInt(d1)))

\* What a pruning call leaves behind: the exception it raised, or the weight
\* it wrote and the indices it used.
Raised(w) == [err |-> TRUE, w |-> w, indices |-> <<>>]
Pruned(w, indices) == [err |-> FALSE, w |-> w, indices |-> indices]

(***************************************************************************)
(* do_sparse(w, ratio): the possible outcomes.  The flattened d1*d2 x 1    *)
(* view shares the parameter's storage, so scatter_ changes the weight.    *)
(***************************************************************************)
\* Mutant of do_sparse: topk on w instead of w.abs().
do_sparse_signed(w, ratio) ==
    LET w1 == reshape(w, Numel(w), 1)
        k == int_k(ratio, Numel(w))
    IN  IF ~topk_in_range(k, Numel(w)) THEN {Raised(w)}
        ELSE {Pruned(reshape(scatter_(w1, indices), NumRows(w), NumCols(w)), indices) :
                indices \in topk(w1, k)}

do_sparse(w, ratio) ==
    LET d1_old == NumRows(w)
        d2_old == NumCols(w)
        w1 == reshape(w, d1_old * d2_old, 1)
        d1 == NumRows(w1)
        k == int_k(ratio, d1)
    IN  IF ~topk_in_range(k, d1) THEN {Raised(w)}
        ELSE {Pruned(reshape(scatter_(w1, indices), d1_old, d2_old), indices) :
                indices \in topk(abs(w1), k)}

(***************************************************************************)
(* do_sparse_chn(w, ratio): every column of new_w is the vector of row     *)
(* sums of |w|, so topk returns the same rows for every column.            *)
(***************************************************************************)
\* Mutant of do_sparse_chn: topk on w.abs() instead of the row sums.
do_sparse_chn_entries(w, ratio) ==
    LET k == int_k(ratio, NumRows(w))
    IN  IF ~topk_in_range(k, NumRows(w)) THEN {Raised(w)}
        ELSE {Pruned(scatter_(w, indices), indices) : indices \in topk(abs(w), k)}

do_sparse_chn(w, ratio) ==
    LET d1 == NumRows(w)
        d2 == NumCols(w)
        k == int_k(ratio, d1)
        new_w == [i \in 1..d1 |-> [j \in 1..d2 |-> SumSeq(abs(w)[i])]]
    IN  IF ~topk_in_range(k, d1) THEN {Raised(w)}
        ELSE {Pruned(scatter_(w, indices), indices) : indices \in topk(new_w, k)}

(***************************************************************************)
(* do_sparse_mh(w, ratio, indices): indices = None is modelled as <<>>.    *)
(* reshape raises when the element count is not that of 12 heads; with     *)
(* indices given, zeros(k, d2) raises for k < 0 and scatter_ raises when   *)
(* the indices have more rows than k.                                      *)
(***************************************************************************)
None == <<>>

do_sparse_mh(w, ratio, indices) ==
    LET d1 == NumHeads
        d2 == HeadSize * HiddenCols
    IN  IF Numel(w) # d1 * d2 THEN {Raised(w)}
        ELSE LET w1 == reshape(w, d1, d2)
                 k == int_k(ratio, d1)
                 back(x) == reshape(x, NumHeads * HeadSize, HiddenCols)
             IN  IF indices = None
                 THEN IF ~topk_in_range(k, d1) THEN {Raised(w)}
                      ELSE {Pruned(back(scatter_(w1, ind)), ind) :
                              ind \in topk(abs(w1), k)}
                 ELSE IF k < 0 \/ \E j \in 1..d2 : Cardinality(indices[j]) > k
                      THEN {Raised(w)}
                      ELSE {Pruned(back(scatter_(w1, indices)), indices)}

(***************************************************************************)
(* The layout: layer_num encoder layers, 4 flat slots per layer, 6 weight  *)
(* matrices per layer (to_change[0..5]: query, key, value,                 *)
(* attention.output.dense, intermediate.dense, output.dense).              *)
(***************************************************************************)
\* The number of encoder layers the pruning pass walks (12 in the source).
layer_num == 2
NumSlots == 4 * layer_num
Slots == 0..(NumSlots - 1)
Layers == 0..(layer_num - 1)
\* 3072 / 768: the feed-forward width in units of the hidden width (4 in the
\* source's whole_param), at model scale.
FFMult == 2

WeightShape(m) ==
    IF m = 4 THEN <<FFMult * NumHeads * HeadSize, HiddenCols>>
    ELSE IF m = 5 THEN <<NumHeads * HeadSize, FFMult * HiddenCols>>
    ELSE <<NumHeads * HeadSize, HiddenCols>>

(***************************************************************************)
(* balance(prune_rate, ratio), lines 1115-1125.  The division by rate_all  *)
(* raises ZeroDivisionError when the weighted mean is 0, before any rate   *)
(* is overwritten.                                                         *)
(***************************************************************************)
whole_param == <<768 * 768 * 3, 768 * 768, 768 * 3072, 3072 * 768>>

RECURSIVE RSum(_, _)
RSum(f, S) ==
    IF S = {} THEN RInt(0)
    ELSE LET i == CHOOSE x \in S : TRUE IN RAdd(f[i], RSum(f, S \ {i}))

\* Mutant of balance: the rates are divided by their weighted mean and not
\* multiplied by ratio.
balance_unscaled(prune_rate, ratio) ==
    LET rate_sum == RSum([i \in Slots |->
                            RMul(prune_rate[i], RInt(whole_param[(i % 4) + 1]))], Slots)
        rate_one == RSum([i \in Slots |-> RInt(whole_param[(i % 4) + 1])], Slots)
        rate_all == RDiv(rate_sum, rate_one)
    IN  IF RIsZero(rate_all) THEN [err |-> TRUE, prune_rate |-> prune_rate]
        ELSE [err |-> FALSE,
              prune_rate |-> [i \in Slots |-> RDiv(prune_rate[i], rate_all)]]

\* Mutant of balance: the plain mean of the rates instead of the mean
\* weighted by whole_param.
balance_unweighted(prune_rate, ratio) ==
    LET rate_all == RDiv(RSum(prune_rate, Slots), RInt(NumSlots))
    IN  IF RIsZero(rate_all) THEN [err |-> TRUE, prune_rate |-> prune_rate]
        ELSE [err |-> FALSE,
              prune_rate |-> [i \in Slots |->
                                 RMul(RDiv(prune_rate[i], rate_all), ratio)]]

balance(prune_rate, ratio) ==
    LET rate_sum == RSum([i \in Slots |->
                            RMul(prune_rate[i], RInt(whole_param[(i % 4) + 1]))], Slots)
        rate_one == RSum([i \in Slots |-> RInt(whole_param[(i % 4) + 1])], Slots)
        rate_all == RDiv(rate_sum, rate_one)
    IN  IF RIsZero(rate_all) THEN [err |-> TRUE, prune_rate |-> prune_rate]
        ELSE [err |-> FALSE,
              prune_rate |-> [i \in Slots |->
                                 RMul(RDiv(prune_rate[i], rate_all), ratio)]]

(***************************************************************************)
(* The pruning engine on its own: one weight matrix, one keep-ratio, one   *)
(* mode, pruned twice in a row with no weight update in between.           *)
(***************************************************************************)
VARIABLES
    engine,       \* the pruning engine on its own (SpecEngine)
    bal,          \* the rate balancer on its own (SpecBalance)
    metric,       \* one evaluation on its own (SpecMetric)
    args,         \* the command line and the data sets: task_name,
                  \* gradient_accumulation_steps, num_train_epochs, do_train,
                  \* do_eval, n_batches = len(train_dataloader), eval_labels
    params,       \* nni.get_next_parameter(): [pt, pr], the 'pt<i>' and 'pr<i>' keys
    pc,           \* where the program is
    error,        \* the exception that ended the run, or "none"
    prune_type,   \* main's prune_type list, indexed 0..47 in the source
    prune_rate,   \* main's prune_rate list
    weights,      \* model.bert.encoder.layer[l], to_change[0..5] of each layer
    training,     \* the module's training flag (model.train() / model.eval())
    epoch_i, step, global_step, now_step, layer_now,
    grads,        \* the epochs of the batches whose gradients are accumulated
    best_acc,
    reports,      \* nni.report_intermediate_result calls, in order
    final,        \* nni.report_final_result calls, in order
    hist          \* what the run has done so far (for stating properties)

progVars == <<args, params, pc, error, prune_type, prune_rate, weights, training,
              epoch_i, step, global_step, now_step, layer_now, grads, best_acc,
              reports, final, hist>>
vars == <<engine, bal, metric, progVars>>

\* The program is not running: every program variable is at rest.
ProgIdle ==
    /\ args = <<>> /\ params = <<>> /\ pc = "idle" /\ error = "none"
    /\ prune_type = <<>> /\ prune_rate = <<>> /\ weights = <<>>
    /\ training = FALSE /\ epoch_i = 0 /\ step = 0 /\ global_step = 0
    /\ now_step = 0 /\ layer_now = 0 /\ grads = <<>> /\ best_acc = <<0, 1>>
    /\ reports = <<>> /\ final = <<>> /\ hist = <<>>

\* Matrix entries: a zero, a small negative and a large positive value.
Vals == {-1, 0, 2}
\* Matrices of the generic d1 x d2 shape have at most MaxEntries entries.
MaxEntries == 6
\* Keep-ratios are the multiples of 1/RateDen in (0, 1].
RateDen == 4

Matrices(d1, d2) == [1..d1 -> [1..d2 -> Vals]]
Shapes == {s \in (1..MaxEntries) \X (1..MaxEntries) : s[1] * s[2] <= MaxEntries}
KeepRatios == {Rat(n, RateDen) : n \in 1..RateDen}
One == RInt(1)

\* Value matrices whose selection is handed on as the shared one: all entries
\* tied, and the smaller entry alternating between the heads column by column.
ValueSample(c) ==
    [i \in 1..(NumHeads * HeadSize) |->
        [j \in 1..HiddenCols |->
            LET p == (i - 1) * HiddenCols + (j - 1)
                head == p \div (HeadSize * HiddenCols)
                col == p % (HeadSize * HiddenCols)
            IN  IF c = 1 THEN 2
                ELSE IF (head + col) % 2 = 0 THEN -1 ELSE 2]]

InitEngine ==
    /\ \E op \in {"vanilla", "channel", "multihead", "multihead_shared"},
       r \in KeepRatios :
        \E w \in IF op \in {"vanilla", "channel"}
                 THEN UNION {Matrices(s[1], s[2]) : s \in Shapes}
                 ELSE Matrices(NumHeads * HeadSize, HiddenCols) :
            \E v \in IF op = "multihead_shared"
                     THEN {ValueSample(c) : c \in 1..2} ELSE {<<>>} :
                engine = [op |-> op, w |-> w, keepRatio |-> r, value |-> v,
                          outs |-> <<>>]
    /\ bal = <<>> /\ metric = <<>>
    /\ ProgIdle

\* The weight the next application reads.
EngineWeight == IF engine.outs = <<>> THEN engine.w
                ELSE engine.outs[Len(engine.outs)].w

EngineRecord(o) ==
    /\ engine' = [engine EXCEPT !.outs = Append(@, o)]
    /\ UNCHANGED <<bal, metric, progVars>>

PruneVanilla ==
    /\ engine.op = "vanilla" /\ Len(engine.outs) < 2
    /\ \E o \in do_sparse(EngineWeight, RSub(One, engine.keepRatio)) :
          EngineRecord(o)

PruneChannel ==
    /\ engine.op = "channel" /\ Len(engine.outs) < 2
    /\ \E o \in do_sparse_chn(EngineWeight, RSub(One, engine.keepRatio)) :
          EngineRecord(o)

PruneMultiHead ==
    /\ engine.op = "multihead" /\ Len(engine.outs) < 2
    /\ \E o \in do_sparse_mh(EngineWeight, RSub(One, engine.keepRatio), None) :
          EngineRecord(o)

\* The shared selection is the one do_sparse_mh returns for the value matrix;
\* the second application reuses the selection of the first.
PruneMultiHeadShared ==
    /\ engine.op = "multihead_shared" /\ Len(engine.outs) < 2
    /\ \E sel \in IF engine.outs = <<>>
                  THEN {v.indices : v \in do_sparse_mh(engine.value,
                                          RSub(One, engine.keepRatio), None)}
                  ELSE {engine.outs[1].indices} :
          \E o \in do_sparse_mh(EngineWeight, RSub(One, engine.keepRatio), sel) :
              EngineRecord(o)

NextEngine == PruneVanilla \/ PruneChannel \/ PruneMultiHead \/ PruneMultiHeadShared

SpecEngine == InitEngine /\ [][NextEngine]_vars

(***************************************************************************)
(* The rate balancer on its own: one rate vector, one target, one call.    *)
(***************************************************************************)
\* Rates a controller may send besides the default 0.5: negative, zero, small
\* and larger than 1.
RawRates == {Rat(-1, 2), RInt(0), Rat(1, 4), RInt(4)}
DefaultRate == Rat(1, 2)
Targets == {Rat(3, 10), Rat(1, 2), RInt(1)}

\* Rate vectors: all slots equal, or the default with up to two slots changed.
RateVectors ==
    {[i \in Slots |-> c] : c \in RawRates \cup {DefaultRate}}
    \cup {[i \in Slots |-> IF i = a THEN x ELSE IF i = b THEN y ELSE DefaultRate] :
            a \in Slots, b \in Slots, x \in RawRates, y \in RawRates}

InitBalance ==
    /\ \E v \in RateVectors, t \in Targets :
          bal = [prune_rate |-> v, ratio |-> t, ret |-> <<>>]
    /\ engine = <<>> /\ metric = <<>>
    /\ ProgIdle

CallBalance ==
    /\ bal.ret = <<>>
    /\ bal' = [bal EXCEPT !.ret = <<balance(bal.prune_rate, bal.ratio)>>]
    /\ UNCHANGED <<engine, metric, progVars>>

NextBalance == CallBalance

SpecBalance == InitBalance /\ [][NextBalance]_vars

(***************************************************************************)
(* Scores are floats: a rational, or NaN / +inf / -inf (numpy division by  *)
(* zero).  NaN is <<0, 0>>, +inf is <<1, 0>>, -inf is <<-1, 0>>.           *)
(***************************************************************************)
NaN == <<0, 0>>
Inf == <<1, 0>>
NegInf == <<-1, 0>>
IsNaN(a) == a = NaN
IsFinite(a) == a[2] # 0

FDiv(a, b) ==
    IF IsNaN(a) \/ IsNaN(b) THEN NaN
    ELSE IF ~IsFinite(a) THEN (IF ~IsFinite(b) THEN NaN
                               ELSE IF b[1] < 0 THEN <<-a[1], 0>> ELSE a)
    ELSE IF ~IsFinite(b) THEN RInt(0)
    ELSE IF b[1] = 0 THEN (IF a[1] = 0 THEN NaN
                           ELSE IF a[1] > 0 THEN Inf ELSE NegInf)
    ELSE RDiv(a, b)

FAdd(a, b) ==
    IF IsNaN(a) \/ IsNaN(b) THEN NaN
    ELSE IF ~IsFinite(a) THEN (IF ~IsFinite(b) /\ a # b THEN NaN ELSE a)
    ELSE IF ~IsFinite(b) THEN b
    ELSE RAdd(a, b)

\* a > b on floats: False whenever a NaN is involved.
FGt(a, b) ==
    /\ ~IsNaN(a) /\ ~IsNaN(b)
    /\ IF IsFinite(a) /\ IsFinite(b) THEN RLess(b, a)
       ELSE IF a = Inf THEN b # Inf
       ELSE IF b = NegInf THEN a # NegInf
       ELSE FALSE

RECURSIVE FSum(_)
FSum(v) == IF v = <<>> THEN RInt(0) ELSE FAdd(v[1], FSum(Tail(v)))

\* x ** 0.5 for the products the model meets, which are perfect squares.
sqrt(x) == CHOOSE r \in 0..x : r * r = x

(***************************************************************************)
(* accuracy(out, labels), lines 568-575; outputs is np.argmax(out, axis=1). *)
(***************************************************************************)
\* Mutant of accuracy: the numerator is tp + tn - fp - fn.
accuracy_difference(outputs, labels) ==
    LET D == DOMAIN labels
        tp == SumSeq([i \in D |-> outputs[i] * labels[i]])
        tn == SumSeq([i \in D |-> (1 - outputs[i]) * (1 - labels[i])])
        fp == SumSeq([i \in D |-> outputs[i] * (1 - labels[i])])
        fn == SumSeq([i \in D |-> (1 - outputs[i]) * labels[i]])
        mc == FDiv(RInt(tp + tn - fp - fn),
                   RInt(sqrt((tp + fp) * (tp + fn) * (tn + fp) * (tn + fn))))
    IN  [correct |-> Cardinality({i \in D : outputs[i] = labels[i]}), mc |-> mc]

accuracy(outputs, labels) ==
    LET D == DOMAIN labels
        tp == SumSeq([i \in D |-> outputs[i] * labels[i]])
        tn == SumSeq([i \in D |-> (1 - outputs[i]) * (1 - labels[i])])
        fp == SumSeq([i \in D |-> outputs[i] * (1 - labels[i])])
        fn == SumSeq([i \in D |-> (1 - outputs[i]) * labels[i]])
        mc == FDiv(RInt(tp * tn - fp * fn),
                   RInt(sqrt((tp + fp) * (tp + fn) * (tn + fp) * (tn + fn))))
    IN  [correct |-> Cardinality({i \in D : outputs[i] = labels[i]}), mc |-> mc]

(***************************************************************************)
(* The program: main() and prune_function.                                 *)
(***************************************************************************)
\* Bounds of the runs explored.
MaxEpochs == 2
MaxBatches == 3
MaxGas == 2
\* The optimizer is opaque: an update replaces the weights by one of
\* NumUpdates fresh sets.
NumUpdates == 2

processors == {"cola", "mnli", "mnli-mm", "mrpc", "sst-2", "sts-b", "qqp", "qnli",
               "rte", "wnli"}
output_modes == [t \in processors \ {"mnli-mm"} |->
                    IF t = "sts-b" THEN "regression" ELSE "classification"]

\* str.lower() on the task names the model draws from.
lower(name) == IF name = "CoLA" THEN "cola" ELSE name

\* The weights after update u (0: the checkpoint that __init__ loads).  The
\* entries of a matrix differ in magnitude and alternate in sign, except that
\* after update 2 the value and attention-output matrices of layer 0 hold
\* pairs of equal magnitude.
GenMatrix(l, m, u) ==
    LET d1 == WeightShape(m)[1]
        d2 == WeightShape(m)[2]
    IN  [i \in 1..d1 |-> [j \in 1..d2 |->
            LET q == (i - 1) * d2 + (j - 1)
                mag == IF l = 0 /\ m \in {2, 3} /\ u = 2
                       THEN 1 + ((q + 1) \div 2)
                       ELSE 1 + ((5 * q + l + 2 * m + 3 * u) % 13)
            IN  IF (q + u) % 2 = 0 THEN mag ELSE -mag]]

GenWeights(u) == [l \in Layers |-> [m \in 0..5 |-> GenMatrix(l, m, u)]]

\* The history kept for stating properties.
\*   fwd         training forward passes made
\*   passes      pruning passes completed
\*   updated     the optimizer was stepped in the current training step
\*   visited     the flat slots whose block the current pass has run, in order
\*   calls       the pruning calls of the current pass, in order
\*   pass_start  the weights when the current pass began
\*   evals       evaluations made
\*   result      the result dict of the last evaluation (lines 998-1000)
Hist0 == [fwd |-> 0, passes |-> 0, updated |-> FALSE, visited |-> <<>>,
          calls |-> <<>>, pass_start |-> <<>>, evals |-> 0, result |-> <<>>]

Abort(exc) == pc' = "aborted" /\ error' = exc

\* Mutant of Construct: the configuration is not checked.
ConstructUnchecked ==
    /\ pc = "construct"
    /\ pc' = "get_params"
    /\ weights' = GenWeights(0) /\ training' = TRUE
    /\ UNCHANGED <<engine, bal, metric, args, params, error, prune_type, prune_rate,
                   epoch_i, step, global_step, now_step, layer_now, grads,
                   best_acc, reports, final, hist>>

\* prune_function.__init__, lines 657-822.
Construct ==
    /\ pc = "construct"
    /\ IF args.gradient_accumulation_steps < 1 THEN Abort("ValueError")
       ELSE IF ~args.do_train /\ ~args.do_eval THEN Abort("ValueError")
       ELSE IF lower(args.task_name) \notin processors THEN Abort("ValueError")
       ELSE IF lower(args.task_name) \notin DOMAIN output_modes THEN Abort("KeyError")
       ELSE IF ~args.do_train THEN Abort("TypeError")
       ELSE pc' = "get_params" /\ error' = error
    /\ IF pc' = "get_params"
       THEN weights' = GenWeights(0) /\ training' = TRUE
       ELSE UNCHANGED <<weights, training>>
    /\ UNCHANGED <<engine, bal, metric, args, params, prune_type, prune_rate, epoch_i, step,
                   global_step, now_step, layer_now, grads, best_acc, reports,
                   final, hist>>

\* Mutant of GetParams: the 'pt' keys are not read.
GetParamsRatesOnly ==
    /\ pc = "get_params"
    /\ prune_type' = [i \in Slots |-> "vanilla"]
    /\ prune_rate' = [i \in Slots |->
                        IF i \in DOMAIN params.pr THEN params.pr[i] ELSE Rat(1, 2)]
    /\ pc' = "balance"
    /\ UNCHANGED <<engine, bal, metric, args, params, error, weights, training, epoch_i,
                   step, global_step, now_step, layer_now, grads, best_acc,
                   reports, final, hist>>

\* main, lines 1106-1113.
GetParams ==
    /\ pc = "get_params"
    /\ prune_type' = [i \in Slots |->
                        IF i \in DOMAIN params.pt THEN params.pt[i] ELSE "vanilla"]
    /\ prune_rate' = [i \in Slots |->
                        IF i \in DOMAIN params.pr THEN params.pr[i] ELSE Rat(1, 2)]
    /\ pc' = "balance"
    /\ UNCHANGED <<engine, bal, metric, args, params, error, weights, training, epoch_i,
                   step, global_step, now_step, layer_now, grads, best_acc,
                   reports, final, hist>>

\* Mutant of Balance: the rates go to training as the parameters gave them.
BalanceSkipped ==
    /\ pc = "balance"
    /\ pc' = "begin"
    /\ UNCHANGED <<engine, bal, metric, args, params, error, prune_type, prune_rate,
                   weights, training, epoch_i, step, global_step, now_step,
                   layer_now, grads, best_acc, reports, final, hist>>

\* main, line 1127: prune_rate = balance(prune_rate, 0.3).
Balance ==
    /\ pc = "balance"
    /\ LET r == balance(prune_rate, Rat(3, 10))
       IN  IF r.err
           THEN Abort("ZeroDivisionError") /\ UNCHANGED prune_rate
           ELSE pc' = "begin" /\ prune_rate' = r.prune_rate /\ error' = error
    /\ UNCHANGED <<engine, bal, metric, args, params, prune_type, weights, training,
                   epoch_i, step, global_step, now_step, layer_now, grads,
                   best_acc, reports, final, hist>>

\* eval_after_train, lines 824-880: the copy of the model, the optimizer,
\* model.train(), the counters, best_acc = 0.
BeginTraining ==
    /\ pc = "begin"
    /\ training' = TRUE
    /\ global_step' = 0 /\ now_step' = 0 /\ epoch_i' = 0 /\ step' = 0
    /\ best_acc' = RInt(0)
    /\ pc' = "epoch"
    /\ UNCHANGED <<engine, bal, metric, args, params, error, prune_type, prune_rate,
                   weights, layer_now, grads, reports, final, hist>>

\* Line 881, the head of the epoch loop: the next epoch, or return best_acc.
EpochLoop ==
    /\ pc = "epoch"
    /\ IF epoch_i < args.num_train_epochs
       THEN pc' = "forward" /\ step' = 0
       ELSE pc' = "report_final" /\ step' = step
    /\ UNCHANGED <<engine, bal, metric, args, params, error, prune_type, prune_rate,
                   weights, training, epoch_i, global_step, now_step, layer_now,
                   grads, best_acc, reports, final, hist>>

\* Line 891: the forward pass of a training step.
Forward ==
    /\ pc = "forward"
    /\ hist' = [hist EXCEPT !.fwd = @ + 1, !.updated = FALSE]
    /\ pc' = "backward"
    /\ UNCHANGED <<engine, bal, metric, args, params, error, prune_type, prune_rate,
                   weights, training, epoch_i, step, global_step, now_step,
                   layer_now, grads, best_acc, reports, final>>

\* Lines 893-912: the loss and loss.backward(), which adds to the gradients.
Backward ==
    /\ pc = "backward"
    /\ grads' = Append(grads, epoch_i)
    /\ pc' = "optimizer"
    /\ UNCHANGED <<engine, bal, metric, args, params, error, prune_type, prune_rate,
                   weights, training, epoch_i, step, global_step, now_step,
                   layer_now, best_acc, reports, final, hist>>

\* Mutant of StartPass: the step ends without a pruning pass.
NoPass ==
    /\ pc' = "step_end" /\ layer_now' = layer_now

\* Line 926: the pruning pass begins, whether or not the optimizer stepped.
StartPass ==
    /\ pc' = "prune_qkv" /\ layer_now' = 0

\* Lines 913-924 on an accumulation boundary: optimizer.step(),
\* optimizer.zero_grad(), global_step += 1.
OptimizerStep ==
    /\ pc = "optimizer"
    /\ (step + 1) % args.gradient_accumulation_steps = 0
    /\ \E u \in 1..NumUpdates :
          /\ weights' = GenWeights(u)
          /\ hist' = [hist EXCEPT !.updated = TRUE, !.visited = <<>>,
                                  !.calls = <<>>, !.pass_start = weights']
    /\ grads' = <<>>
    /\ global_step' = global_step + 1
    /\ StartPass
    /\ UNCHANGED <<engine, bal, metric, args, params, error, prune_type, prune_rate,
                   training, epoch_i, step, now_step, best_acc, reports, final>>

\* Line 913 off an accumulation boundary: nothing is stepped.
OptimizerSkip ==
    /\ pc = "optimizer"
    /\ (step + 1) % args.gradient_accumulation_steps # 0
    /\ hist' = [hist EXCEPT !.visited = <<>>, !.calls = <<>>,
                            !.pass_start = weights]
    /\ StartPass
    /\ UNCHANGED <<engine, bal, metric, args, params, error, prune_type, prune_rate,
                   weights, training, epoch_i, step, global_step, now_step,
                   grads, best_acc, reports, final>>

(***************************************************************************)
(* The pruning pass, lines 926-959.  A block works on the six matrices of  *)
(* one layer; its possible results are records of the matrices it leaves,  *)
(* whether a call raised, the calls made, and the indices last returned.   *)
(***************************************************************************)
Run(fn, w, ratio, indices) ==
    IF fn = "do_sparse" THEN do_sparse(w, ratio)
    ELSE IF fn = "do_sparse_chn" THEN do_sparse_chn(w, ratio)
    ELSE do_sparse_mh(w, ratio, indices)

\* One more call, on to_change[m].weight, after each result in S that did
\* not raise.
ApplyCall(S, fn, m, ratio, useIndices) ==
    UNION {IF s.err THEN {s}
           ELSE LET given == IF useIndices THEN s.ind ELSE None
                IN  {[W |-> [s.W EXCEPT ![m] = o.w],
                      err |-> o.err,
                      calls |-> Append(s.calls, [fn |-> fn, mat |-> m, ratio |-> ratio,
                                                 given |-> given, indices |-> o.indices,
                                                 err |-> o.err]),
                      ind |-> o.indices] : o \in Run(fn, s.W[m], ratio, given)}
           : s \in S}

\* Mutant of prune_multihead_qkv: query and key select for themselves.
prune_multihead_qkv_unshared(S, ratio) ==
    ApplyCall(ApplyCall(ApplyCall(S, "do_sparse_mh", 2, ratio, FALSE),
                        "do_sparse_mh", 0, ratio, FALSE),
              "do_sparse_mh", 1, ratio, FALSE)

\* Mutant of prune_multihead_qkv: query selects, key and value follow it.
prune_multihead_qkv_query_first(S, ratio) ==
    ApplyCall(ApplyCall(ApplyCall(S, "do_sparse_mh", 0, ratio, FALSE),
                        "do_sparse_mh", 1, ratio, TRUE),
              "do_sparse_mh", 2, ratio, TRUE)

\* Lines 942-944: value first, then query and key with value's indices.
prune_multihead_qkv(S, ratio) ==
    ApplyCall(ApplyCall(ApplyCall(S, "do_sparse_mh", 2, ratio, FALSE),
                        "do_sparse_mh", 0, ratio, TRUE),
              "do_sparse_mh", 1, ratio, TRUE)

\* Lines 934-936 and 938-940: query, key, value, each on its own.
prune_each_qkv(S, fn, ratio) ==
    ApplyCall(ApplyCall(ApplyCall(S, fn, 0, ratio, FALSE), fn, 1, ratio, FALSE),
              fn, 2, ratio, FALSE)

BlockStart == {[W |-> weights[layer_now], err |-> FALSE, calls |-> <<>>, ind |-> None]}
SlotNow(s) == layer_now * 4 + s
RatioNow(s) == RSub(One, prune_rate[SlotNow(s)])

\* The block leaves result o, and control goes to next unless a call raised.
BlockDone(s, o, next) ==
    /\ weights' = [weights EXCEPT ![layer_now] = o.W]
    /\ hist' = [hist EXCEPT !.visited = Append(@, SlotNow(s)),
                            !.calls = @ \o [c \in DOMAIN o.calls |->
                                               [slot |-> SlotNow(s), layer |-> layer_now,
                                                call |-> o.calls[c]]]]
    /\ IF o.err THEN Abort("RuntimeError") ELSE pc' = next /\ error' = error

\* Lines 933-944: slot 0 of the layer.
PruneQKV ==
    /\ pc = "prune_qkv"
    /\ LET t == prune_type[SlotNow(0)]
           results == IF t = "vanilla" THEN prune_each_qkv(BlockStart, "do_sparse", RatioNow(0))
                      ELSE IF t = "channel"
                           THEN prune_each_qkv(BlockStart, "do_sparse_chn", RatioNow(0))
                      ELSE IF t = "multihead" THEN prune_multihead_qkv(BlockStart, RatioNow(0))
                      ELSE BlockStart
       IN  \E o \in results : BlockDone(0, o, "prune_attn_out")
    /\ UNCHANGED <<engine, bal, metric, args, params, prune_type, prune_rate, training,
                   epoch_i, step, global_step, now_step, layer_now, grads,
                   best_acc, reports, final>>

\* Lines 945-948: slot 1 of the layer.
PruneAttnOutput ==
    /\ pc = "prune_attn_out"
    /\ LET t == prune_type[SlotNow(1)]
           results == IF t = "vanilla"
                      THEN ApplyCall(BlockStart, "do_sparse", 3, RatioNow(1), FALSE)
                      ELSE IF t = "channel"
                           THEN ApplyCall(BlockStart, "do_sparse_chn", 3, RatioNow(1), FALSE)
                      ELSE BlockStart
       IN  \E o \in results : BlockDone(1, o, "prune_intermediate")
    /\ UNCHANGED <<engine, bal, metric, args, params, prune_type, prune_rate, training,
                   epoch_i, step, global_step, now_step, layer_now, grads,
                   best_acc, reports, final>>

\* Lines 949-952: slot 2 of the layer.
PruneIntermediate ==
    /\ pc = "prune_intermediate"
    /\ LET t == prune_type[SlotNow(2)]
           results == IF t = "vanilla"
                      THEN ApplyCall(BlockStart, "do_sparse", 4, RatioNow(2), FALSE)
                      ELSE IF t = "channel"
                           THEN ApplyCall(BlockStart, "do_sparse_chn", 4, RatioNow(2), FALSE)
                      ELSE BlockStart
       IN  \E o \in results : BlockDone(2, o, "prune_output")
    /\ UNCHANGED <<engine, bal, metric, args, params, prune_type, prune_rate, training,
                   epoch_i, step, global_step, now_step, layer_now, grads,
                   best_acc, reports, final>>

\* Lines 953-956: slot 3 of the layer, whose second branch tests for 'chn';
\* then the next layer, or the end of the pass.
PruneOutput ==
    /\ pc = "prune_output"
    /\ LET t == prune_type[SlotNow(3)]
           results == IF t = "vanilla"
                      THEN ApplyCall(BlockStart, "do_sparse", 5, RatioNow(3), FALSE)
                      ELSE IF t = "chn"
                           THEN ApplyCall(BlockStart, "do_sparse_chn", 5, RatioNow(3), FALSE)
                      ELSE BlockStart
           last == layer_now + 1 = layer_num
       IN  /\ \E o \in results :
                BlockDone(3, o, IF last THEN "step_end" ELSE "prune_qkv")
           /\ layer_now' = IF pc' = "prune_qkv" THEN layer_now + 1 ELSE layer_now
    /\ UNCHANGED <<engine, bal, metric, args, params, prune_type, prune_rate, training,
                   epoch_i, step, global_step, now_step, grads, best_acc,
                   reports, final>>

\* Mutant of StepEnd: an evaluation follows every training step.
StepEndEvaluates ==
    /\ pc = "step_end"
    /\ now_step' = now_step + 1
    /\ step' = step + 1
    /\ hist' = [hist EXCEPT !.passes = @ + 1]
    /\ pc' = "evaluate"
    /\ UNCHANGED <<engine, bal, metric, args, params, error, prune_type, prune_rate,
                   weights, training, epoch_i, global_step, layer_now, grads,
                   best_acc, reports, final>>

\* Line 960 and the head of the batch loop, line 885.
StepEnd ==
    /\ pc = "step_end"
    /\ now_step' = now_step + 1
    /\ step' = step + 1
    /\ hist' = [hist EXCEPT !.passes = @ + 1]
    /\ pc' = IF step + 1 < args.num_batches THEN "forward" ELSE "evaluate"
    /\ UNCHANGED <<engine, bal, metric, args, params, error, prune_type, prune_rate,
                   weights, training, epoch_i, global_step, layer_now, grads,
                   best_acc, reports, final>>

\* The predictions the model may make on the evaluation set.
Predictions(labels) ==
    {f \in [DOMAIN labels ->
               UNION {[1..Len(labels[b]) -> {0, 1}] : b \in DOMAIN labels}] :
        \A b \in DOMAIN labels : Len(f[b]) = Len(labels[b])}

\* Mutant of eval_result: the correlation is computed once, on the whole
\* evaluation set.
eval_result_pooled(labels, outputs) ==
    LET B == DOMAIN labels
        RECURSIVE Concat(_, _)
        Concat(v, b) == IF b > Len(v) THEN <<>> ELSE v[b] \o Concat(v, b + 1)
        whole == accuracy(Concat(outputs, 1), Concat(labels, 1))
    IN  [eval_accuracy |-> FDiv(RInt(whole.correct), RInt(Len(Concat(labels, 1)))),
         mc |-> whole.mc]

\* Lines 969-1000: the loop over the evaluation batches and the result dict.
eval_result(labels, outputs) ==
    LET B == DOMAIN labels
        res == [b \in B |-> accuracy(outputs[b], labels[b])]
        nb_eval_steps == Len(labels)
        nb_eval_examples == SumSeq([b \in B |-> Len(labels[b])])
    IN  [eval_accuracy |-> FDiv(RInt(SumSeq([b \in B |-> res[b].correct])),
                                RInt(nb_eval_examples)),
         mc |-> FDiv(FSum([b \in B |-> res[b].mc]), RInt(nb_eval_steps))]

\* Mutant of mc_or_zero: the correlation is used as it is.
mc_kept(eval_mc) == eval_mc

\* Lines 1001-1002: if eval_mc != eval_mc: eval_mc = 0.
mc_or_zero(eval_mc) == IF IsNaN(eval_mc) THEN RInt(0) ELSE eval_mc

\* Lines 966-1009: the evaluation that ends an epoch.
Evaluate ==
    /\ pc = "evaluate"
    /\ training' = FALSE
    /\ \E outputs \in Predictions(args.eval_labels) :
          LET result == eval_result(args.eval_labels, outputs)
              acc == result.eval_accuracy
              mc == result.mc
              eval_mc == mc_or_zero(mc)
              eval_accuracy == IF args.task_name = "cola" THEN eval_mc ELSE acc
          IN  /\ best_acc' = IF FGt(eval_accuracy, best_acc) THEN eval_accuracy
                             ELSE best_acc
              /\ reports' = Append(reports, eval_accuracy)
              /\ hist' = [hist EXCEPT !.evals = @ + 1,
                                      !.result = result]
    /\ epoch_i' = epoch_i + 1
    /\ pc' = "epoch"
    /\ UNCHANGED <<engine, bal, metric, args, params, error, prune_type, prune_rate,
                   weights, step, global_step, now_step, layer_now, grads, final>>

\* main, line 1129: nni.report_final_result(float(acc)).
ReportFinal ==
    /\ pc = "report_final"
    /\ final' = <<best_acc>>
    /\ pc' = "done"
    /\ UNCHANGED <<engine, bal, metric, args, params, error, prune_type, prune_rate,
                   weights, training, epoch_i, step, global_step, now_step,
                   layer_now, grads, best_acc, reports, hist>>

(***************************************************************************)
(* The runs explored: the plans the tuner may hand over, under a short     *)
(* training run; the shapes of the training loop, under the default plan;  *)
(* and the command lines and evaluation sets, under the default plan.      *)
(***************************************************************************)
TypeValues == {"channel", "multihead", "chn", "svd"}

\* No 'pt' key, or one; key NumSlots is past the last slot that main reads.
TypePlans == {<<>>} \cup {(i :> t) : i \in 0..NumSlots, t \in TypeValues}

\* No 'pr' key, one, or one for every slot with the same value.
RatePlans == {<<>>} \cup {(i :> r) : i \in 0..NumSlots, r \in RawRates}
                    \cup {[i \in Slots |-> r] : r \in RawRates}

EvalSets == {<<<<1, 0>>>>, <<<<1, 0>>, <<1, 1>>>>, <<<<0>>, <<0, 1>>>>}

DefaultArgs == [task_name |-> "cola", do_train |-> TRUE, do_eval |-> TRUE,
                gradient_accumulation_steps |-> 2, num_train_epochs |-> 1,
                num_batches |-> 3, eval_labels |-> <<<<1, 0>>>>]
DefaultPlan == [pt |-> <<>>, pr |-> <<>>]

\* A plan has type keys only, rate keys only, or a type and a rate for the
\* same slot.
PlanRuns == {[a |-> DefaultArgs, p |-> q] :
                q \in {x \in [pt : TypePlans, pr : RatePlans] :
                          x.pt = <<>> \/ x.pr = <<>> \/ DOMAIN x.pt = DOMAIN x.pr}}

LoopRuns == {[a |-> [DefaultArgs EXCEPT !.gradient_accumulation_steps = g,
                                        !.num_train_epochs = e,
                                        !.num_batches = n],
              p |-> DefaultPlan] :
                g \in 1..MaxGas, e \in 0..MaxEpochs, n \in 1..MaxBatches}

CommandRuns == {[a |-> [DefaultArgs EXCEPT !.task_name = t,
                                           !.do_train = c[1], !.do_eval = c[2],
                                           !.gradient_accumulation_steps = c[3],
                                           !.num_train_epochs = 2,
                                           !.num_batches = 1,
                                           !.eval_labels = l],
                 p |-> DefaultPlan] :
                   t \in {"cola", "CoLA", "sst-2", "mnli-mm", "nope"},
                   c \in {<<TRUE, TRUE, 1>>, <<TRUE, FALSE, 1>>, <<FALSE, TRUE, 1>>,
                          <<FALSE, FALSE, 1>>, <<TRUE, TRUE, 0>>},
                   l \in EvalSets}

Init ==
    /\ engine = <<>> /\ bal = <<>> /\ metric = <<>>
    /\ \E run \in PlanRuns \cup LoopRuns \cup CommandRuns :
          args = run.a /\ params = run.p
    /\ pc = "construct" /\ error = "none"
    /\ prune_type = <<>> /\ prune_rate = <<>>
    /\ weights = <<>> /\ training = FALSE
    /\ epoch_i = 0 /\ step = 0 /\ global_step = 0 /\ now_step = 0 /\ layer_now = 0
    /\ grads = <<>> /\ best_acc = RInt(0) /\ reports = <<>> /\ final = <<>>
    /\ hist = Hist0

Next ==
    \/ Construct
    \/ GetParams
    \/ Balance
    \/ BeginTraining
    \/ EpochLoop
    \/ Forward
    \/ Backward
    \/ OptimizerStep
    \/ OptimizerSkip
    \/ PruneQKV
    \/ PruneAttnOutput
    \/ PruneIntermediate
    \/ PruneOutput
    \/ StepEnd
    \/ Evaluate
    \/ ReportFinal

Spec == Init /\ [][Next]_vars

(***************************************************************************)
(* One evaluation on its own: an evaluation set split into batches, and    *)
(* the model's predictions on it: all right, all 0, or all 1; anything on  *)
(* a single batch of fewer than MaxEvalBatchSize examples (on larger       *)
(* batches a mixed prediction can make the correlation irrational).        *)
(***************************************************************************)
MaxEvalBatches == 2
MaxEvalBatchSize == 3

LabelBatches == UNION {[1..n -> {0, 1}] : n \in 1..MaxEvalBatchSize}
LabelSets == UNION {[1..n -> LabelBatches] : n \in 1..MaxEvalBatches}
Constantly(labels, c) == [b \in DOMAIN labels |-> [i \in DOMAIN labels[b] |-> c]]

InitMetric ==
    /\ \E labels \in LabelSets :
          \E outputs \in {labels, Constantly(labels, 0), Constantly(labels, 1)}
                          \cup (IF Len(labels) = 1 /\ Len(labels[1]) < MaxEvalBatchSize
                                THEN Predictions(labels) ELSE {}) :
             metric = [labels |-> labels, outputs |-> outputs, ret |-> <<>>]
    /\ engine = <<>> /\ bal = <<>>
    /\ ProgIdle

CallEvaluate ==
    /\ metric.ret = <<>>
    /\ metric' = [metric EXCEPT !.ret = <<eval_result(metric.labels, metric.outputs)>>]
    /\ UNCHANGED <<engine, bal, progVars>>

NextMetric == CallEvaluate

SpecMetric == InitMetric /\ [][NextMetric]_vars

(***************************************************************************)
(* Properties of the pruning engine                                        *)
(***************************************************************************)
\* The weight the i-th application read.
EngineIn(i) == IF i = 1 THEN engine.w ELSE engine.outs[i - 1].w
Applied(op) == IF engine.op = op THEN DOMAIN engine.outs ELSE {}
Positions(w) == (1..NumRows(w)) \X (1..NumCols(w))
FlatPos(w, p) == (p[1] - 1) * NumCols(w) + p[2]
ZeroCount(w) == Cardinality({p \in Positions(w) : w[p[1]][p[2]] = 0})
RowMagnitude(w, i) == SumSeq(abs(w)[i])

\* C2: Vanilla pruning with keep-ratio r in (0,1] does not raise, keeps the
\* shape, writes zero to exactly floor((1-r)*d1*d2) entries, none of them
\* larger in magnitude than an entry it leaves alone, and leaves every other
\* entry as it was; a matrix of equal non-zero entries ends with exactly that
\* many zeros, and for 768x768 and r = 1/2 that number is 294912.
C2_VanillaBottomK ==
    /\ int_k(RSub(One, Rat(1, 2)), 768 * 768) = 294912
    /\ \A n \in Applied("vanilla") :
        LET win == EngineIn(n)
            out == engine.outs[n]
            k == RFloor(RMul(RSub(One, engine.keepRatio), RInt(Numel(win))))
            Z == {p \in Positions(win) : FlatPos(win, p) \in out.indices[1]}
        IN  /\ ~out.err
            /\ NumRows(out.w) = NumRows(win) /\ NumCols(out.w) = NumCols(win)
            /\ Cardinality(Z) = k
            /\ \A p \in Z : out.w[p[1]][p[2]] = 0
            /\ \A p \in Positions(win) \ Z : out.w[p[1]][p[2]] = win[p[1]][p[2]]
            /\ \A p \in Z : \A q \in Positions(win) \ Z :
                  Abs(win[p[1]][p[2]]) <= Abs(win[q[1]][q[2]])
            /\ (\A p \in Positions(win) : win[p[1]][p[2]] = 2)
                  => /\ ZeroCount(out.w) = k
                     /\ Cardinality({p \in Positions(win) : out.w[p[1]][p[2]] = 2})
                          = Numel(win) - k

\* A Vanilla application on a matrix of two rows and columns with entries of
\* different magnitude, and one on an all-equal matrix, that zeroed entries.
C2_Witness ==
    /\ engine.op = "vanilla" /\ Len(engine.outs) >= 1
    /\ NumRows(engine.w) >= 2 /\ NumCols(engine.w) >= 2
    /\ engine.keepRatio = Rat(1, 2)
    /\ engine.w[1][1] = 2 /\ engine.w[1][2] = -1 /\ ZeroCount(engine.w) = 1
    /\ ZeroCount(engine.outs[1].w) = Numel(engine.w) \div 2

\* C3: Channel pruning with keep-ratio r in (0,1] does not raise, sets every
\* entry of exactly floor((1-r)*d1) rows to zero, none of them with a larger
\* sum of absolute values than a row it leaves alone, and changes no entry of
\* any other row.
C3_ChannelWholeRows ==
    \A n \in Applied("channel") :
        LET win == EngineIn(n)
            out == engine.outs[n]
            d1 == NumRows(win)
            d2 == NumCols(win)
            k == RFloor(RMul(RSub(One, engine.keepRatio), RInt(d1)))
            R == out.indices[1]
        IN  /\ ~out.err
            /\ \A j \in 1..d2 : out.indices[j] = R
            /\ Cardinality(R) = k
            /\ \A i \in R : \A j \in 1..d2 : out.w[i][j] = 0
            /\ \A i \in (1..d1) \ R : out.w[i] = win[i]
            /\ \A i \in R : \A u \in (1..d1) \ R :
                  RowMagnitude(win, i) <= RowMagnitude(win, u)

\* A Channel application that zeroed a row holding a non-zero entry while a
\* row with a smaller entry but a larger sum stayed.
C3_Witness ==
    /\ engine.op = "channel" /\ Len(engine.outs) >= 1
    /\ NumRows(engine.w) = 3 /\ NumCols(engine.w) = 2
    /\ engine.w = <<(<<2, 0>>), (<<-1, -1>>), (<<-1, 2>>)>>
    /\ engine.keepRatio = Rat(1, 2)
    /\ engine.outs[1].w = <<(<<0, 0>>), (<<-1, -1>>), (<<-1, 2>>)>>

\* C4: MultiHead pruning with no shared selection zeroes every entry of
\* exactly k = floor((1-r)*12) heads, those of smallest aggregate magnitude,
\* and no entry of any other head.
C4_MultiHeadWholeHeads ==
    \A n \in Applied("multihead") :
        LET d2 == HeadSize * HiddenCols
            hin == reshape(EngineIn(n), NumHeads, d2)
            hout == reshape(engine.outs[n].w, NumHeads, d2)
            k == RFloor(RMul(RSub(One, engine.keepRatio), RInt(NumHeads)))
        IN  /\ ~engine.outs[n].err
            /\ \E H \in SUBSET (1..NumHeads) :
                  /\ Cardinality(H) = k
                  /\ \A h \in H : \A g \in (1..NumHeads) \ H :
                        RowMagnitude(hin, h) <= RowMagnitude(hin, g)
                  /\ \A h \in H : \A j \in 1..d2 : hout[h][j] = 0
                  /\ \A g \in (1..NumHeads) \ H : hout[g] = hin[g]

\* C6: pruning twice in a row with the same mode, ratio and (for MultiHead
\* with a shared selection) the same selection gives the matrix that pruning
\* once gives.
C6_Idempotent ==
    Len(engine.outs) = 2 =>
        /\ ~engine.outs[1].err /\ ~engine.outs[2].err
        /\ engine.outs[2].w = engine.outs[1].w

\* A second application that selected other entries than the first, after a
\* first application that changed the matrix.
C6_Witness ==
    /\ Len(engine.outs) = 2
    /\ engine.outs[1].w # engine.w
    /\ engine.outs[2].indices # engine.outs[1].indices

(***************************************************************************)
(* Properties of the rate balancer                                         *)
(***************************************************************************)
\* The parameter-count-weighted mean of a rate vector.  The weights the claim
\* names, 3*768*768, 768*768, 768*3072 and 3072*768, are 768*768 times 3, 1, 4
\* and 4; the common factor cancels in the mean and is left out to keep the
\* sums small.
ClaimWeights == <<3, 1, 4, 4>>
ClaimWeightsAreTheNamedOnes ==
    /\ 768 * 768 * ClaimWeights[1] = 3 * 768 * 768
    /\ 768 * 768 * ClaimWeights[2] = 768 * 768
    /\ 768 * 768 * ClaimWeights[3] = 768 * 3072
    /\ 768 * 768 * ClaimWeights[4] = 3072 * 768
WeightedMean(r) ==
    RDiv(RSum([i \in Slots |-> RMul(r[i], RInt(ClaimWeights[(i % 4) + 1]))], Slots),
         RSum([i \in Slots |-> RInt(ClaimWeights[(i % 4) + 1])], Slots))

\* C7 as stated: for any input vector and any target s, balance returns a rate
\* for every slot and their parameter-count-weighted mean equals s.
C7_BalanceAnyInput ==
    bal.ret # <<>> =>
        /\ ClaimWeightsAreTheNamedOnes
        /\ ~bal.ret[1].err
        /\ DOMAIN bal.ret[1].prune_rate = Slots
        /\ WeightedMean(bal.ret[1].prune_rate) = bal.ratio

\* C7 amended: for any input vector whose parameter-count-weighted mean is not
\* zero and any target s, balance returns a rate for every slot and their
\* parameter-count-weighted mean equals s; when the weighted mean of the input
\* is zero balance raises ZeroDivisionError and returns nothing.
C7_BalanceNonZeroMean ==
    bal.ret # <<>> =>
        /\ ClaimWeightsAreTheNamedOnes
        /\ IF RIsZero(WeightedMean(bal.prune_rate))
           THEN bal.ret[1].err
           ELSE /\ ~bal.ret[1].err
                /\ DOMAIN bal.ret[1].prune_rate = Slots
                /\ WeightedMean(bal.ret[1].prune_rate) = bal.ratio

\* balance has returned for a vector of unequal rates, one of them negative.
C7_Witness ==
    /\ bal.ret # <<>> /\ ~bal.ret[1].err
    /\ bal.prune_rate[0] = Rat(-1, 2) /\ bal.prune_rate[1] = RInt(4)
    /\ bal.ratio = Rat(3, 10)
    /\ bal.ret[1].prune_rate[2] # bal.ret[1].prune_rate[1]

(***************************************************************************)
(* Properties of the program.                                              *)
(***************************************************************************)
AllSlots == [i \in 1..NumSlots |-> i - 1]
InPass == pc \in {"prune_qkv", "prune_attn_out", "prune_intermediate", "prune_output"}
\* The slots whose block the pass has run when control is at pc.
SlotsRun ==
    layer_now * 4 + (IF pc = "prune_qkv" THEN 0
                     ELSE IF pc = "prune_attn_out" THEN 1
                     ELSE IF pc = "prune_intermediate" THEN 2 ELSE 3)

\* C1: every training step, on an accumulation boundary or not, is followed
\* by exactly one pruning pass that visits all flat slots in increasing
\* order, after the step's optimizer update (if any) and before the next
\* forward pass: when a forward pass is due, as many passes have completed
\* as forward passes were made; between a forward pass and the end of its
\* step exactly one pass is outstanding, begun after the optimizer line and
\* advancing through the slots in order; at the end of the step it has
\* visited every slot.
C1_PassEveryStep ==
    /\ pc \in {"forward", "evaluate", "epoch", "report_final", "done"}
          => hist.passes = hist.fwd
    /\ pc \in {"backward", "optimizer"} => hist.passes = hist.fwd - 1
    /\ InPass => /\ hist.passes = hist.fwd - 1
                 /\ hist.visited = SubSeq(AllSlots, 1, SlotsRun)
    /\ pc = "step_end" => /\ hist.passes = hist.fwd - 1
                          /\ hist.visited = AllSlots
                          /\ now_step = hist.passes

\* A step whose optimizer was not stepped ends after a pass that pruned.
C1_Witness ==
    /\ pc = "step_end"
    /\ ~hist.updated
    /\ (step + 1) % args.gradient_accumulation_steps # 0
    /\ hist.visited = AllSlots
    /\ Len(hist.calls) = 6 * layer_num
    /\ weights # hist.pass_start

\* The heads that are zero in each column of the 12-way head view of w.
ZeroHeads(w) ==
    LET d2 == HeadSize * HiddenCols
        w1 == reshape(w, NumHeads, d2)
    IN  [j \in 1..d2 |-> {h \in 1..NumHeads : w1[h][j] = 0}]

\* The calls the pass has made for the layer being pruned.
LayerCalls == SelectSeq(hist.calls, LAMBDA c : c.layer = layer_now)

\* C5: when the QKV block of a MultiHead layer has run, the selection that
\* the value matrix produced was handed unchanged to query and key, and
\* the heads zeroed are the same in the query, key and value matrices.
C5_SharedSelection ==
    (pc = "prune_attn_out" /\ prune_type[SlotNow(0)] = "multihead") =>
        LET c == LayerCalls
            W == weights[layer_now]
        IN  /\ Len(c) = 3
            /\ c[1].call.mat = 2 /\ c[2].call.mat = 0 /\ c[3].call.mat = 1
            /\ c[1].call.given = None
            /\ c[2].call.given = c[1].call.indices
            /\ c[3].call.given = c[1].call.indices
            /\ ZeroHeads(W[2]) = c[1].call.indices
            /\ ZeroHeads(W[0]) = ZeroHeads(W[2])
            /\ ZeroHeads(W[1]) = ZeroHeads(W[2])

\* A MultiHead QKV block has run and zeroed some heads.
C5_Witness ==
    /\ pc = "prune_attn_out"
    /\ prune_type[SlotNow(0)] = "multihead"
    /\ \E j \in DOMAIN ZeroHeads(weights[layer_now][2]) :
          ZeroHeads(weights[layer_now][2])[j] # {}
    /\ ZeroHeads(weights[layer_now][0]) = ZeroHeads(weights[layer_now][2])

Uniform(f) == DOMAIN f = Slots /\ \A i, j \in Slots : f[i] = f[j]
Balanced == pc \notin {"construct", "get_params", "balance", "aborted"}
Target == Rat(3, 10)

\* C8: balance turns equal non-zero rates into rates all equal to the
\* target (0.5 everywhere and target 0.3 gives 0.3 everywhere), so a run
\* whose parameters hold no rate key, or one equal non-zero rate for every
\* slot, has rate 0.3 for every slot once main has balanced, and every
\* pruning call of its passes is made with ratio 1 - 0.3.
C8_EqualRatesBecomeTarget ==
    /\ pc = "balance" =>
          /\ \A t \in Targets :
                balance([i \in Slots |-> Rat(1, 2)], t).prune_rate = [i \in Slots |-> t]
          /\ Uniform(prune_rate) /\ prune_rate[0] # RInt(0) =>
                \A t \in Targets :
                   balance(prune_rate, t) =
                      [err |-> FALSE, prune_rate |-> [i \in Slots |-> t]]
          /\ params.pr = <<>> => prune_rate = [i \in Slots |-> Rat(1, 2)]
    /\ (Balanced /\ (params.pr = <<>> \/ (Uniform(params.pr) /\ params.pr[0] # RInt(0))))
          => /\ prune_rate = [i \in Slots |-> Target]
             /\ \A c \in DOMAIN hist.calls :
                   hist.calls[c].call.ratio = RSub(One, Target)

\* A run without rate keys has ended a training step pruned at 0.3.
C8_Witness ==
    /\ pc = "step_end"
    /\ params.pr = <<>>
    /\ prune_rate = [i \in Slots |-> Target]
    /\ Len(hist.calls) = 6 * layer_num
    /\ \A c \in DOMAIN hist.calls : hist.calls[c].call.ratio = Rat(7, 10)

\* The keep-ratio of a slot is its balanced rate; the engine is handed
\* 1 - rate, the share to zero.
KeepRatio(c) == RSub(One, c.call.ratio)
ValidRatio(r) == RLess(RInt(0), r) /\ RLeq(r, One)

\* C9: a pruning call whose keep-ratio lies outside (0, 1] raises an error
\* (whatever its name) that aborts the run, and leaves its weight as it was.
C9_InvalidRatioAborts ==
    \A c \in DOMAIN hist.calls :
        LET x == hist.calls[c]
        IN  ~ValidRatio(KeepRatio(x)) =>
               /\ x.call.err
               /\ pc = "aborted" /\ error # "none"
               /\ weights[x.layer][x.call.mat] = hist.pass_start[x.layer][x.call.mat]

\* What the code does instead: with keep-ratio 0 a training step completes
\* with a whole matrix zeroed.
C9_SilentlyZeroed ==
    /\ pc = "step_end"
    /\ \E c \in DOMAIN hist.calls :
          LET x == hist.calls[c]
          IN  /\ KeepRatio(x) = RInt(0)
              /\ ~x.call.err
              /\ \A i \in 1..NumRows(weights[x.layer][x.call.mat]) :
                    \A j \in 1..NumCols(weights[x.layer][x.call.mat]) :
                       weights[x.layer][x.call.mat][i][j] = 0

\* A slot paired with a mode the pass cannot apply to it.
Malformed(i) ==
    \/ prune_type[i] \notin {"vanilla", "channel", "multihead"}
    \/ prune_type[i] = "multihead" /\ i % 4 # 0

\* C10: a plan with a malformed slot aborts the run: no training step
\* completes with such a slot visited.
C10_MalformedPlanAborts ==
    pc = "step_end" => \A i \in Slots : ~Malformed(i)

\* What the code does instead: the step completes and the slot's matrix is
\* as the optimizer left it.
C10_SilentlyUnpruned ==
    /\ pc = "step_end"
    /\ \E i \in Slots :
          /\ Malformed(i)
          /\ \A c \in DOMAIN hist.calls : hist.calls[c].slot # i
          /\ weights[i \div 4][(i % 4) + 2] = hist.pass_start[i \div 4][(i % 4) + 2]

Terminated == pc \in {"done", "aborted"}
TrainingSteps == args.num_train_epochs * args.num_batches

\* The statements a run has yet to execute when none raises: a training
\* step is forward, backward, the optimizer line, 4 blocks for each layer
\* and the end of the step; an epoch is the loop head, its steps and the
\* evaluation; after the last epoch come the loop exit and the final report.
StepCost == 4 * layer_num + 4
EpochCost == args.num_batches * StepCost + 2
InStep(done) ==
    (args.num_train_epochs - epoch_i - 1) * EpochCost + 3
        + (args.num_batches - step) * StepCost - done
Remaining ==
    IF Terminated THEN 0
    ELSE IF pc = "construct" THEN args.num_train_epochs * EpochCost + 6
    ELSE IF pc = "get_params" THEN args.num_train_epochs * EpochCost + 5
    ELSE IF pc = "balance" THEN args.num_train_epochs * EpochCost + 4
    ELSE IF pc = "begin" THEN args.num_train_epochs * EpochCost + 3
    ELSE IF pc = "epoch" THEN (args.num_train_epochs - epoch_i) * EpochCost + 2
    ELSE IF pc = "report_final" THEN 1
    ELSE IF pc = "evaluate" THEN (args.num_train_epochs - epoch_i - 1) * EpochCost + 3
    ELSE IF pc = "forward" THEN InStep(0)
    ELSE IF pc = "backward" THEN InStep(1)
    ELSE IF pc = "optimizer" THEN InStep(2)
    ELSE IF pc = "step_end" THEN InStep(StepCost - 1)
    ELSE InStep(3 + SlotsRun)

\* Control is at a statement of the program (the two optimizer cases are
\* complementary, the others are guarded by the position alone).
AtStatement ==
    /\ pc \in {"construct", "get_params", "balance", "begin", "epoch", "forward",
               "backward", "optimizer", "prune_qkv", "prune_attn_out",
               "prune_intermediate", "prune_output", "step_end", "evaluate",
               "report_final"}
    /\ pc = "optimizer" => args.gradient_accumulation_steps >= 1
    /\ pc = "evaluate" => Predictions(args.eval_labels) # {}

\* C11: a run of E epochs over N batches terminates (every statement
\* lowers the count of statements left and, until the run has ended,
\* control is at a statement); unless an error aborts it, it ends after exactly
\* E*N training steps, with one evaluation after each full pass over the
\* batches and none within a pass, one intermediate report per epoch, and
\* one final report, made after the last intermediate one.
C11_RunShape ==
    /\ [](/\ pc = "evaluate" => /\ step = args.num_batches
                                /\ now_step = (epoch_i + 1) * args.num_batches
          /\ pc \notin {"construct", "aborted"} =>
                /\ hist.evals = epoch_i /\ Len(reports) = epoch_i
                /\ epoch_i <= args.num_train_epochs
          /\ pc # "done" => final = <<>>
          /\ pc = "done" => /\ now_step = TrainingSteps
                            /\ hist.fwd = TrainingSteps
                            /\ hist.evals = args.num_train_epochs
                            /\ Len(reports) = args.num_train_epochs
                            /\ Len(final) = 1
          /\ Remaining >= 0
          /\ ~Terminated => AtStatement)
    /\ [][Remaining' < Remaining]_vars

\* A run of several epochs over several batches has ended.
C11_Witness ==
    /\ pc = "done"
    /\ args.num_train_epochs = MaxEpochs /\ args.num_batches = MaxBatches
    /\ now_step = MaxEpochs * MaxBatches
    /\ Len(reports) = MaxEpochs /\ Len(final) = 1

RECURSIVE MaxScore(_)
MaxScore(v) ==
    IF Len(v) = 1 THEN v[1]
    ELSE LET m == MaxScore(Tail(v)) IN IF FGt(v[1], m) THEN v[1] ELSE m

\* C12: the final score reported equals the maximum of the scores reported
\* as intermediate results during the run, whatever those scores are.
C12_FinalIsMax ==
    (pc = "done" /\ reports # <<>>) => final[1] = MaxScore(reports)

\* What the code does instead: best_acc starts at 0, so a run whose scores
\* are all negative reports 0, which no epoch scored.
C12_FinalAboveEveryScore ==
    /\ pc = "done" /\ reports # <<>>
    /\ \A e \in DOMAIN reports : RLess(reports[e], RInt(0))
    /\ final = <<RInt(0)>>

LastReport == reports[Len(reports)]
MatthewsScore == IF IsNaN(hist.result.mc) THEN RInt(0) ELSE hist.result.mc

\* C13: in a run whose task name startup accepts as CoLA (any letter case
\* of 'cola') the score reported for an epoch is the averaged Matthews
\* correlation (0 for NaN); in a run of any other task it is the accuracy.
C13_ScoreByTask ==
    reports # <<>> =>
        LastReport = IF lower(args.task_name) = "cola" THEN MatthewsScore
                     ELSE hist.result.eval_accuracy

\* What the code does instead: the task 'CoLA' passes startup and its
\* epochs are scored by accuracy where the Matthews correlation differs.
C13_CoLAScoredByAccuracy ==
    /\ reports # <<>>
    /\ args.task_name = "CoLA"
    /\ LastReport = hist.result.eval_accuracy
    /\ LastReport # MatthewsScore

\* C14: a NaN Matthews correlation does not abort the run; the CoLA score
\* of that epoch is 0, so no NaN is ever among the intermediate reports,
\* in best_acc or in the final report, and the epoch loop goes on.
C14_NaNBecomesZero ==
    /\ \A e \in DOMAIN reports : reports[e] # NaN /\ IsFinite(reports[e])
    /\ best_acc # NaN
    /\ \A f \in DOMAIN final : final[f] # NaN
    /\ (reports # <<>> /\ hist.result.mc = NaN) =>
          /\ pc \in {"epoch", "forward", "backward", "optimizer", "prune_qkv",
                     "prune_attn_out", "prune_intermediate", "prune_output",
                     "step_end", "evaluate", "report_final", "done"}
          /\ error = "none"
          /\ args.task_name = "cola" => LastReport = RInt(0)

\* A CoLA run met a NaN correlation in its last epoch and in an earlier one,
\* and ended with its reports made.
C14_Witness ==
    /\ pc = "done"
    /\ args.task_name = "cola"
    /\ Len(reports) > 1
    /\ hist.result.mc = NaN
    /\ reports[1] = RInt(0) /\ LastReport = RInt(0)

(***************************************************************************)
(* Properties of one evaluation.                                           *)
(***************************************************************************)
BothClasses(batch) == \E i, j \in DOMAIN batch : batch[i] = 0 /\ batch[j] = 1
AllCorrect == metric.ret # <<>> /\ metric.outputs = metric.labels

\* C15 as claimed: an evaluation in which every prediction equals its label
\* yields accuracy 1 and Matthews correlation 1, for every evaluation set
\* and every split of it into batches.
C15_AllCorrectIsPerfect ==
    AllCorrect => /\ metric.ret[1].eval_accuracy = RInt(1)
                  /\ metric.ret[1].mc = RInt(1)

\* C15, amended: an evaluation in which every prediction equals its label
\* yields accuracy 1; its Matthews correlation is 1 when every batch holds
\* both classes, and NaN when some batch holds one class only.
C15_AllCorrectBothClasses ==
    AllCorrect =>
        /\ metric.ret[1].eval_accuracy = RInt(1)
        /\ metric.ret[1].mc =
              IF \A b \in DOMAIN metric.labels : BothClasses(metric.labels[b])
              THEN RInt(1) ELSE NaN

\* All predictions right on two batches of different sizes and class mixes.
C15_Witness ==
    /\ AllCorrect
    /\ Len(metric.labels) = 2
    /\ Len(metric.labels[1]) = 2 /\ Len(metric.labels[2]) = 3
    /\ \A b \in DOMAIN metric.labels : BothClasses(metric.labels[b])
    /\ metric.ret[1].mc = RInt(1)

PlanBuilt == pc \notin {"construct", "get_params"} /\ prune_type # <<>>

\* C16: the plan main builds has one type and one rate for each of the
\* 4 * layer_num slots (48 in the source); the type of slot i is the value
\* of key 'pt<i>' when present and 'vanilla' otherwise; the rate of slot i
\* before balancing is the value of key 'pr<i>' when present and 0.5
\* otherwise; a key with an index outside the slots changes nothing.
C16_PlanFromParams ==
    PlanBuilt =>
        /\ DOMAIN prune_type = Slots /\ DOMAIN prune_rate = Slots
        /\ Cardinality(Slots) = 4 * layer_num
        /\ \A i \in Slots :
              /\ i \in DOMAIN params.pt => prune_type[i] = params.pt[i]
              /\ i \notin DOMAIN params.pt => prune_type[i] = "vanilla"
              /\ pc = "balance" =>
                    /\ i \in DOMAIN params.pr => prune_rate[i] = params.pr[i]
                    /\ i \notin DOMAIN params.pr => prune_rate[i] = Rat(1, 2)

\* A plan was built from a type key and a rate key of the last slot.
C16_Witness ==
    /\ pc = "balance"
    /\ DOMAIN params.pt = {NumSlots - 1} /\ DOMAIN params.pr = {NumSlots - 1}
    /\ prune_type[NumSlots - 1] = "multihead"
    /\ prune_rate[NumSlots - 1] = RInt(4)
    /\ prune_type[0] = "vanilla" /\ prune_rate[0] = Rat(1, 2)

\* A plan was built from keys whose index is past the last slot.
C16_OutsideKeyIgnored ==
    /\ pc = "balance"
    /\ DOMAIN params.pt = {NumSlots} /\ DOMAIN params.pr = {NumSlots}
    /\ prune_type = [i \in Slots |-> "vanilla"]
    /\ prune_rate = [i \in Slots |-> Rat(1, 2)]

InvalidConfig ==
    \/ lower(args.task_name) \notin processors
    \/ lower(args.task_name) \notin DOMAIN output_modes
    \/ args.gradient_accumulation_steps < 1

\* C17: with a task name that is not a known task, a task that has no
\* output mode, or gradient_accumulation_steps < 1, construction fails:
\* the run never gets past it, so no training step, pruning call,
\* evaluation, intermediate report or final report is ever made.
C17_InvalidConfigFatal ==
    InvalidConfig =>
        /\ pc \in {"construct", "aborted"}
        /\ pc = "aborted" => error \in {"ValueError", "KeyError"}
        /\ weights = <<>>
        /\ hist = Hist0
        /\ now_step = 0 /\ global_step = 0
        /\ reports = <<>> /\ final = <<>>

\* Construction failed on a task that is known but has no output mode.
C17_Witness ==
    /\ pc = "aborted"
    /\ args.task_name = "mnli-mm"
    /\ args.gradient_accumulation_steps >= 1
    /\ error = "KeyError"
    /\ hist = Hist0 /\ reports = <<>> /\ final = <<>>

\* The matrices of a slot: to_change[0..2] for slot 0 of a layer,
\* to_change[s + 2] for slot s = 1, 2, 3.
SlotMatrices(i) == IF i % 4 = 0 THEN {0, 1, 2} ELSE {(i % 4) + 2}
SlotCalls(i) == {c \in DOMAIN hist.calls : hist.calls[c].slot = i}
ModeFunction(t) == IF t = "vanilla" THEN "do_sparse" ELSE "do_sparse_chn"

\* C18: when a pruning pass has ended, every slot typed 'vanilla' or
\* 'channel' has had exactly that mode applied, with the slot's own rate,
\* once to each of its matrices (query, key and value for slot 0 of a layer).
C18_TypedSlotsPruned ==
    pc = "step_end" =>
        \A i \in Slots :
            prune_type[i] \in {"vanilla", "channel"} =>
                /\ {hist.calls[c].call.mat : c \in SlotCalls(i)} = SlotMatrices(i)
                /\ Cardinality(SlotCalls(i)) = Cardinality(SlotMatrices(i))
                /\ \A c \in SlotCalls(i) :
                      /\ hist.calls[c].layer = i \div 4
                      /\ hist.calls[c].call.fn = ModeFunction(prune_type[i])
                      /\ hist.calls[c].call.ratio = RSub(One, prune_rate[i])

\* What the code does instead: a pass ends with an output slot typed
\* 'channel' for which no pruning function was called.
C18_ChannelOutputUnpruned ==
    /\ pc = "step_end"
    /\ \E i \in Slots :
          /\ i % 4 = 3 /\ prune_type[i] = "channel"
          /\ SlotCalls(i) = {}
          /\ weights[i \div 4][5] = hist.pass_start[i \div 4][5]

\* A forward pass other than the first training step's is about to read
\* the weights: a later training step's, or those of an evaluation.
ForwardDue == (pc = "forward" /\ hist.fwd > 0) \/ pc = "evaluate"
ZeroRows(w) ==
    Cardinality({i \in 1..NumRows(w) : \A j \in 1..NumCols(w) : w[i][j] = 0})
\* Slot i is pruned as its type and keep-ratio prune_rate[i] demand.
SlotPruned(i) ==
    \A m \in SlotMatrices(i) :
        LET w == weights[i \div 4][m]
            share == RSub(One, prune_rate[i])
        IN  /\ prune_type[i] = "vanilla" =>
                  ZeroCount(w) >= RFloor(RMul(share, RInt(Numel(w))))
            /\ prune_type[i] = "channel" =>
                  ZeroRows(w) >= RFloor(RMul(share, RInt(NumRows(w))))

\* C19: whenever a forward pass other than the first training step's is
\* due, every matrix of a slot typed 'vanilla' with keep-ratio r has at
\* least floor((1-r)*size) zero entries and every matrix of a slot typed
\* 'channel' has at least floor((1-r)*d1) all-zero rows.
C19_ForwardSeesPruned ==
    ForwardDue => \A i \in Slots : SlotPruned(i)

\* The same, leaving aside the output slots typed 'channel'.
C19_ExceptChannelOutput ==
    ForwardDue =>
        \A i \in Slots : (i % 4 = 3 /\ prune_type[i] = "channel") \/ SlotPruned(i)

\* What the code does instead: an evaluation reads an output matrix of a
\* slot typed 'channel' in which no row is zero.
C19_EvaluatesUnpruned ==
    /\ pc = "evaluate"
    /\ \E i \in Slots :
          /\ i % 4 = 3 /\ prune_type[i] = "channel"
          /\ ZeroRows(weights[i \div 4][5]) = 0
          /\ RFloor(RMul(RSub(One, prune_rate[i]), RInt(NumRows(weights[i \div 4][5])))) > 0

\* The place of a call among the calls of its slot: query, key, value for
\* do_sparse and do_sparse_chn; value, query, key for do_sparse_mh.
CallRank(x) ==
    IF x.call.fn = "do_sparse_mh" THEN (x.call.mat + 1) % 3 ELSE x.call.mat

\* C20: the calls of a pruning pass are made layer by layer in increasing
\* layer index and, within a layer, for the QKV slot first, then
\* attention-output, intermediate and output; in a 'multihead' QKV slot
\* the value matrix is pruned first, with no indices given, and query and
\* key are pruned after it with the indices that call returned.
C20_PassOrder ==
    /\ hist.visited = SubSeq(AllSlots, 1, Len(hist.visited))
    /\ \A c \in DOMAIN hist.calls :
          LET x == hist.calls[c]
          IN  /\ x.layer = x.slot \div 4
              /\ x.call.mat \in SlotMatrices(x.slot)
              /\ x.slot = hist.visited[Len(hist.visited)] \/ x.slot < hist.visited[Len(hist.visited)]
              /\ c > 1 =>
                    LET y == hist.calls[c - 1]
                    IN  /\ y.slot <= x.slot
                        /\ y.slot = x.slot => CallRank(y) < CallRank(x)
              /\ x.call.fn = "do_sparse_mh" =>
                    IF x.call.mat = 2 THEN x.call.given = None
                    ELSE \E b \in 1..(c - 1) :
                            /\ hist.calls[b].slot = x.slot
                            /\ hist.calls[b].call.mat = 2
                            /\ x.call.given = hist.calls[b].call.indices

\* A pass has ended in which the QKV slot of the last layer is 'multihead'.
C20_Witness ==
    /\ pc = "step_end"
    /\ prune_type[NumSlots - 4] = "multihead"
    /\ Len(hist.calls) = 6 * layer_num
    /\ hist.calls[6 * layer_num - 5].call.mat = 2
    /\ hist.calls[6 * layer_num - 5].call.indices # None
    /\ hist.calls[6 * layer_num - 4].call.given = hist.calls[6 * layer_num - 5].call.indices

\* The Matthews value accuracy() returns for batch b of the evaluation.
BatchMc(b) == accuracy(metric.outputs[b], metric.labels[b]).mc

\* C21: a NaN Matthews value of one evaluation batch counts as 0 for that
\* batch only: the epoch's correlation, as it is scored, is the mean over
\* all batches of the batch values with every NaN replaced by 0.
C21_NaNBatchCountsZero ==
    metric.ret # <<>> =>
        mc_or_zero(metric.ret[1].mc) =
            FDiv(FSum([b \in DOMAIN metric.labels |-> mc_or_zero(BatchMc(b))]),
                 RInt(Len(metric.labels)))

\* What the code does instead: the NaN of one batch makes the sum of the
\* batch values NaN, and the epoch is scored 0 although another batch has
\* correlation 1.
C21_EpochScoreLost ==
    /\ metric.ret # <<>>
    /\ \E b \in DOMAIN metric.labels : BatchMc(b) = NaN
    /\ \E b \in DOMAIN metric.labels : BatchMc(b) = RInt(1)
    /\ metric.ret[1].mc = NaN
    /\ mc_or_zero(metric.ret[1].mc) = RInt(0)

\* C22: the plan is rescaled by balance once, in the statement that
\* precedes training, and no later statement changes it: the training
\* steps, the pruning passes and the evaluations leave every type and
\* every rate as they found them, and no statement changes a type.
C22_PlanFixed ==
    [][/\ pc = "balance" /\ pc' = "begin" =>
             /\ prune_rate' = balance(prune_rate, Target).prune_rate
             /\ prune_type' = prune_type
       /\ pc \notin {"get_params", "balance"} =>
             /\ prune_rate' = prune_rate
             /\ prune_type' = prune_type
             /\ pc' # "balance"]_vars

\* A run with a rate key has ended with the rates that balance made of
\* the parameters, which are not the rates of the parameters.
C22_Witness ==
    /\ pc = "done"
    /\ hist.evals > 0 /\ hist.passes > 1
    /\ DOMAIN params.pr = {1}
    /\ prune_rate[1] # params.pr[1]
    /\ prune_rate = balance([i \in Slots |-> IF i = 1 THEN params.pr[1] ELSE Rat(1, 2)],
                            Target).prune_rate

\* The optimizer is about to be stepped on the gradients accumulated.
UpdateDue ==
    pc = "optimizer" /\ (step + 1) % args.gradient_accumulation_steps = 0

\* C23: every optimizer update applies gradients accumulated from exactly
\* gradient_accumulation_steps batches, all of the epoch of the update.
C23_UpdateWithinEpoch ==
    UpdateDue =>
        /\ Len(grads) = args.gradient_accumulation_steps
        /\ \A g \in DOMAIN grads : grads[g] = epoch_i

\* What the code does instead: an update applies the gradient of a batch
\* of the epoch before, left over when that epoch ended.
C23_CarriedAcrossEpochs ==
    /\ UpdateDue
    /\ Len(grads) > args.gradient_accumulation_steps
    /\ \E g \in DOMAIN grads : grads[g] < epoch_i

\* C24: every training step of every epoch runs with the model in training
\* mode.
C24_TrainsInTrainingMode ==
    pc \in {"forward", "backward", "optimizer"} => training

\* What the code does instead: a training step of a later epoch makes its
\* forward pass with the model in the evaluation mode of the evaluation
\* before it.
C24_TrainsInEvalMode ==
    /\ pc = "forward"
    /\ epoch_i > 0 /\ hist.evals = epoch_i
    /\ ~training

\* The confusion counts of batch b, and the two parts of its Matthews value.
Count(b, o, l) ==
    Cardinality({i \in DOMAIN metric.labels[b] :
                    metric.outputs[b][i] = o /\ metric.labels[b][i] = l})
MatthewsProduct(b) ==
    (Count(b, 1, 1) + Count(b, 1, 0)) * (Count(b, 1, 1) + Count(b, 0, 1))
        * (Count(b, 0, 0) + Count(b, 1, 0)) * (Count(b, 0, 0) + Count(b, 0, 1))
MatthewsNumerator(b) ==
    Count(b, 1, 1) * Count(b, 0, 0) - Count(b, 1, 0) * Count(b, 0, 1)

\* C25: in accuracy(), whenever the product under the root is 0 the
\* numerator is 0 too, so the value of a degenerate batch is NaN and never
\* an infinity; every other batch has a finite value, and the correlation
\* of the evaluation, after the NaN-to-0 substitution, is finite.
C25_DegenerateIsNaN ==
    metric.ret # <<>> =>
        /\ \A b \in DOMAIN metric.labels :
              /\ MatthewsProduct(b) = 0 =>
                    MatthewsNumerator(b) = 0 /\ BatchMc(b) = NaN
              /\ MatthewsProduct(b) # 0 => IsFinite(BatchMc(b))
              /\ BatchMc(b) \notin {Inf, NegInf}
        /\ IsFinite(mc_or_zero(metric.ret[1].mc))

\* A degenerate batch on which the predictions are mixed: every label is 1,
\* one prediction is 1 and one is 0.
C25_Witness ==
    /\ metric.ret # <<>>
    /\ Len(metric.labels) = 1
    /\ Count(1, 1, 1) = 1 /\ Count(1, 0, 1) = 1
    /\ MatthewsProduct(1) = 0
    /\ BatchMc(1) = NaN
    /\ mc_or_zero(metric.ret[1].mc) = RInt(0)

====
